---- MODULE Spec2Model ----
(***************************************************************************)
(* State-machine model of the asynchronous media pipeline of whatsapp-poc: *)
(*   src/src/utils/message_deduplicator.py   MessageDeduplicator           *)
(*   src/src/services/media_processor.py     MediaProcessor                *)
(*   src/src/services/z_transact.py          upload / process clients      *)
(*   src/src/utils/file_handler.py           validate_file_size            *)
(*                                                                         *)
(* Granularity: asyncio runs a coroutine without interruption up to its    *)
(* next suspending await, so one action is one such run.  A worker loop     *)
(* (_process_media_queue) is either suspended in queue.get() -- idle_loops *)
(* counts these -- or inside _process_single_media for the task it took;   *)
(* running maps that task to the await the loop is suspended in:           *)
(*   "idle"     wait_for(queue.get())            media_processor.py:58     *)
(*   "meta"     client.get(meta_url)             media_processor.py:122    *)
(*   "file"     client.get(media_url)            media_processor.py:148    *)
(*   "upload"   wait_for(upload_to_z_transact)   media_processor.py:214    *)
(*   "settle"   asyncio.sleep(30)                media_processor.py:237    *)
(*   "process"  wait_for(process_z_transact..)   media_processor.py:240    *)
(* Time is counted in minutes (datetime.now() read once per action).       *)
(* tasks holds the processing_data dicts that are still referenced (by the *)
(* queue or by a worker); when _process_single_media returns, the dict is  *)
(* no longer referenced and moves to finished, which keeps the most        *)
(* recently finished one.  The fields hist and io and the variables        *)
(* created, finished and lastCall are history variables: they record what  *)
(* the code did and are never read by an action's guard: hist is the list  *)
(* of values assigned to "status", io the list of external operations      *)
(* completed for the task with their outcomes, and lastCall gives per key  *)
(* the time of the latest queue_media_for_processing call (.any) and of    *)
(* the latest call that created a task (.accepted); -1 stands for none;    *)
(* .dropped tells whether the latest call was dropped as a duplicate.      *)
(* raised tells whether an exception has ever propagated out of            *)
(* queue_media_for_processing to its caller.                               *)
(*                                                                         *)
(* The synchronous path of src/src/api/whatsapp.py (process_message,       *)
(* download_media, store_message) is modelled by the variable webhook: the *)
(* invocation of process_message in progress or last ended, with the await *)
(* it is suspended in (pc), store_message's message_data dict, the         *)
(* operations performed (io) and how the call ended (outcome).             *)
(*                                                                         *)
(* The pure functions of src/src/utils/file_handler.py are exercised by    *)
(* FileHandlerSpec: file_call holds the latest call (function, arguments,  *)
(* result).  A MIME type is the tuple of its parts around the first "/"    *)
(* (<<"image", "png">>; <<"unknown">> has no "/"), a file name the tuple   *)
(* of its parts around each "." (<<"report", "docx">>; <<>> is None and    *)
(* <<"">> the empty string), a phone number the tuple of its characters.   *)
(*                                                                         *)
(* _generate_message_hash is exercised on webhook payloads by HashSpec; a  *)
(* payload is the list of its <<key, value>> items in insertion order.     *)
(***************************************************************************)
EXTENDS Integers, Sequences, FiniteSets, TLC

VARIABLES now, CONFIG, processed_messages, message_timestamps,
          processing_queue, is_processing, tasks, created, idle_loops,
          running, finished, lastCall, raised, webhook, file_call

vars == <<now, CONFIG, processed_messages, message_timestamps,
          processing_queue, is_processing, tasks, created, idle_loops,
          running, finished, lastCall, raised, webhook, file_call>>

(* ------------------------------ bounds -------------------------------- *)
MaxTasks == 3
MaxWorkers == 2
MaxTime == 61
TickSteps == {30, 31}

(* ------------------------- program constants -------------------------- *)
expiry_minutes == 60
MiB == 1024 * 1024

None == "None"

(* Inbound message records: the four identity fields read by the          *)
(* deduplicator; a field the payload lacks is None (dict.get).            *)
Messages ==
  { [id |-> "wamid.A", from |-> "15550001", timestamp |-> "1700000000", type |-> "image"],
    [id |-> "wamid.B", from |-> None,       timestamp |-> "1700000000", type |-> "image"] }

(* A message_data argument that is not a dict (it has no .get).           *)
NotADict == [not_a_dict |-> TRUE]

IsDict(m) == "id" \in DOMAIN m

(* Byte lengths a content download can deliver.                           *)
FileSizes == {2 * MiB, 5 * MiB + 1}

(* The size a metadata response declares (its "file_size" entry): the     *)
(* content then delivered has that length or a different one (FileSizes). *)
(* Only a 200 response has its body read (-1: not read).                   *)
DeclaredSizes == {2 * MiB}

MetaFileSize(r) == IF r \in {"ok", "no_url"} THEN DeclaredSizes ELSE {-1}

(* Keys of the CONFIG dict that the pipeline reads.                       *)
ConfigKeys == {"ACCESS_TOKEN", "Z_TRANSACT_ACCESS_TOKEN", "Z_TRANSACT_API_URL"}

(* CONFIG.get(k): the value, or None (falsy) for a key the dict lacks.    *)
ConfigGet(k) == IF k \in DOMAIN CONFIG THEN CONFIG[k] ELSE FALSE

(* ----------------------------- exceptions ----------------------------- *)
(* The exceptions the modelled code can raise outside its own narrower    *)
(* handlers: AttributeError (message_data.get on a non-dict, deduplicator *)
(* line 17) and KeyError (message_data["from"], processor line 90).       *)
ExceptionClasses == {"AttributeError", "KeyError"}

except_Exception_none(exc) == FALSE

except_Exception_not_KeyError(exc) == exc \in ExceptionClasses \ {"KeyError"}

(* An `except Exception` clause (processor lines 48, 64, 101) catches     *)
(* every exception derived from Exception.                                 *)
except_Exception(exc) == exc \in ExceptionClasses

(* ---------------------------- deduplicator ---------------------------- *)
(* _generate_message_hash: digest of exactly the four identity fields.    *)
(* The md5 digest is represented by the tuple it is computed from.        *)
_generate_message_hash(m) == <<m.id, m.from, m.timestamp, m.type>>

Hashes == {_generate_message_hash(m) : m \in Messages}

(* A webhook payload as the parsed JSON object: its items in the order    *)
(* they were inserted, each a <<key, value>> pair, no key twice.          *)
PayloadItems ==
  { <<"id", "wamid.A">>, <<"id", "wamid.B">>, <<"from", "15550001">>,
    <<"timestamp", "1700000000">>, <<"type", "image">>,
    <<"caption", "hello">> }

PayloadKeys == {item[1] : item \in PayloadItems}

Payloads ==
  { d \in UNION {[1..n -> PayloadItems] : n \in 0..Cardinality(PayloadKeys)} :
      \A k, l \in 1..Len(d) : d[k][1] = d[l][1] => k = l }

IdentityFields == <<"id", "from", "timestamp", "type">>

dict_get_positional(d, key) ==
  LET pos == CHOOSE k \in 1..4 : IdentityFields[k] = key IN
  IF pos <= Len(d) THEN d[pos][2] ELSE None

(* message_data.get(key): the value stored under key, None without it.    *)
dict_get(d, key) ==
  IF \E k \in 1..Len(d) : d[k][1] = key
  THEN d[CHOOSE k \in 1..Len(d) : d[k][1] = key][2]
  ELSE None

(* What lines 17-22 read of message_data.                                  *)
key_fields(d) ==
  [ id |-> dict_get(d, "id"), from |-> dict_get(d, "from"),
    timestamp |-> dict_get(d, "timestamp"), type |-> dict_get(d, "type") ]

ExpiredAt_inclusive(ts, t) == ts <= t - expiry_minutes

ExpiredAt_inverted(ts, t) == ts > t - expiry_minutes

(* _cleanup_expired_messages: the hashes stamped before now - expiry.     *)
ExpiredAt(ts, t) == ts < t - expiry_minutes

expired_hashes_none(stamps, t) == {}

expired_hashes(stamps, t) == {h \in DOMAIN stamps : ExpiredAt(stamps[h], t)}

_cleanup_expired_messages_set(set, stamps, t) == set \ expired_hashes(stamps, t)

_cleanup_expired_messages_map(stamps, t) ==
  [h \in (DOMAIN stamps) \ expired_hashes(stamps, t) |-> stamps[h]]

IsDuplicateResult_unless_failed(m) ==
  /\ _generate_message_hash(m) \in processed_messages
  /\ ~\E k \in 1..Len(finished) :
        /\ _generate_message_hash(finished[k].message_data) = _generate_message_hash(m)
        /\ finished[k].status \in {"download_failed", "failed"}

(* is_duplicate: the membership test comes first; cleanup and insertion   *)
(* happen only on the not-present branch.                                 *)
IsDuplicateResult(m) == _generate_message_hash(m) \in processed_messages

is_duplicate_check_only(m) == UNCHANGED <<processed_messages, message_timestamps>>

is_duplicate_refreshing(m) ==
  LET h == _generate_message_hash(m) IN
  /\ processed_messages' =
       _cleanup_expired_messages_set(processed_messages, message_timestamps, now) \cup {h}
  /\ message_timestamps' =
       [k \in (DOMAIN _cleanup_expired_messages_map(message_timestamps, now)) \cup {h} |->
          IF k = h THEN now
          ELSE message_timestamps[k]]

is_duplicate(m) ==
  LET h == _generate_message_hash(m) IN
  IF IsDuplicateResult(m)
  THEN UNCHANGED <<processed_messages, message_timestamps>>
  ELSE /\ processed_messages' =
            _cleanup_expired_messages_set(processed_messages, message_timestamps, now) \cup {h}
       /\ message_timestamps' =
            [k \in (DOMAIN _cleanup_expired_messages_map(message_timestamps, now)) \cup {h} |->
               IF k = h THEN now
               ELSE message_timestamps[k]]

(* ------------------------------- tasks --------------------------------- *)
(* processing_data dict of queue_media_for_processing (lines 32-40); a    *)
(* key the dict does not hold yet is "unset".  downloaded_media is what   *)
(* _download_media returned to line 80 ("dict" or None) and file_size the *)
(* entry of that dict (-1 before the download); declared_size is the      *)
(* local file_size of _download_media, read from the metadata response    *)
(* (line 136): -1 before that and after _download_media has returned.     *)
NewTask_downloading(m) ==
  [ message_data |-> m, msg_type |-> m.type, timestamp |-> now,
    status |-> "downloading", hist |-> <<"queued", "downloading">>, io |-> <<>>,
    downloaded_media |-> "unset", declared_size |-> -1,
    file_size |-> -1, file_path |-> FALSE, z_transact_upload |-> "unset",
    document_id |-> "unset", z_transact_process |-> "unset",
    error |-> FALSE ]

NewTask(m) ==
  [ message_data |-> m, msg_type |-> m.type, timestamp |-> now,
    status |-> "queued", hist |-> <<"queued">>, io |-> <<>>,
    downloaded_media |-> "unset", declared_size |-> -1,
    file_size |-> -1, file_path |-> FALSE, z_transact_upload |-> "unset",
    document_id |-> "unset", z_transact_process |-> "unset",
    error |-> FALSE ]

SetStatus(t, s) == [t EXCEPT !.status = s, !.hist = Append(@, s)]

Did(t, op, outcome) == [t EXCEPT !.io = Append(@, <<op, outcome>>)]

(* The dicts still referenced, by creation number.                        *)
Put(ts, i, t) == [k \in (DOMAIN ts) \cup {i} |-> IF k = i THEN t ELSE ts[k]]

Drop(ts, i) == [k \in (DOMAIN ts) \ {i} |-> ts[k]]

(* Worker loops that have been created and have not ended.                *)
LiveLoops == idle_loops + Cardinality(DOMAIN running)

SpawnsLoop_always(flag) == TRUE

(* start_processing line 20: a loop is created only if the flag is unset. *)
SpawnsLoop(flag) == ~flag

(* start_processing lines 20-22: the number of loops waiting at the queue *)
(* after the call.                                                         *)
start_processing_effect(flag, n) ==
  IF SpawnsLoop(flag) THEN n + 1 ELSE n

(* validate_file_size: per-kind ceiling, 100 MiB for an unlisted kind.      *)
size_limits ==
  [ image |-> 5 * MiB, video |-> 100 * MiB, audio |-> 16 * MiB,
    document |-> 100 * MiB, sticker |-> 1 * MiB ]

size_limit(msg_type) ==
  IF msg_type \in DOMAIN size_limits THEN size_limits[msg_type] ELSE 100 * MiB

validate_file_size_strict(file_size, msg_type) == file_size < size_limit(msg_type)

validate_file_size(file_size, msg_type) == file_size <= size_limit(msg_type)

(* ------------------------ file_handler.py ------------------------------ *)
(* MIME_TYPE_MAP of src/config.py.                                         *)
MIME_TYPE_MAP ==
  <<"application", "pdf">> :> "pdf" @@
  <<"application", "msword">> :> "doc" @@
  <<"application", "vnd.openxmlformats-officedocument.wordprocessingml.document">> :> "docx" @@
  <<"application", "vnd.ms-excel">> :> "xls" @@
  <<"application", "vnd.openxmlformats-officedocument.spreadsheetml.sheet">> :> "xlsx" @@
  <<"application", "vnd.ms-powerpoint">> :> "ppt" @@
  <<"application", "vnd.openxmlformats-officedocument.presentationml.presentation">> :> "pptx" @@
  <<"text", "csv">> :> "csv" @@
  <<"text", "plain">> :> "txt" @@
  <<"text", "html">> :> "html" @@
  <<"text", "xml">> :> "xml" @@
  <<"image", "jpeg">> :> "jpg" @@
  <<"image", "jpg">> :> "jpg" @@
  <<"image", "png">> :> "png" @@
  <<"image", "gif">> :> "gif" @@
  <<"image", "webp">> :> "webp" @@
  <<"audio", "mpeg">> :> "mp3" @@
  <<"audio", "mp3">> :> "mp3" @@
  <<"audio", "wav">> :> "wav" @@
  <<"audio", "ogg">> :> "ogg" @@
  <<"audio", "m4a">> :> "m4a" @@
  <<"audio", "amr">> :> "amr" @@
  <<"video", "mp4">> :> "mp4" @@
  <<"video", "3gpp">> :> "3gp" @@
  <<"video", "quicktime">> :> "mov" @@
  <<"video", "webm">> :> "webm" @@
  <<"application", "zip">> :> "zip" @@
  <<"application", "x-rar-compressed">> :> "rar" @@
  <<"application", "x-7z-compressed">> :> "7z" @@
  <<"application", "x-tar">> :> "tar" @@
  <<"application", "gzip">> :> "gz" @@
  <<"application", "octet-stream">> :> "bin"

NoFilename == <<>>

(* str.lower() on the name parts used below.                               *)
LowerCase == ("PDF" :> "pdf" @@ "Docx" :> "docx")

lower(part) == IF part \in DOMAIN LowerCase THEN LowerCase[part] ELSE part

(* mime_type.startswith(prefix + "/").                                     *)
startswith(mime_type, prefix) == Len(mime_type) > 1 /\ mime_type[1] = prefix

get_file_extension_filename_first(mime_type, filename) ==
  IF filename # NoFilename /\ Len(filename) > 1
  THEN lower(filename[Len(filename)])
  ELSE IF mime_type \in DOMAIN MIME_TYPE_MAP THEN MIME_TYPE_MAP[mime_type]
  ELSE "bin"

(* get_file_extension: the MIME map first, then the part of the file name *)
(* after its last ".", lower-cased, then "bin".                            *)
get_file_extension(mime_type, filename) ==
  IF mime_type \in DOMAIN MIME_TYPE_MAP
  THEN MIME_TYPE_MAP[mime_type]
  ELSE IF filename # NoFilename /\ filename # <<"">> /\ Len(filename) > 1
  THEN lower(filename[Len(filename)])
  ELSE "bin"

get_media_subdirectory_by_kind(msg_type, mime_type) ==
  IF msg_type \in {"image", "video"} THEN
    IF msg_type = "image" THEN "images" ELSE "videos"
  ELSE IF msg_type = "audio" THEN "audio"
  ELSE IF msg_type = "document" THEN "documents"
  ELSE "other"

(* get_media_subdirectory: msg_type + "s" for image and video; a document *)
(* is placed by the prefix of its MIME type.                               *)
get_media_subdirectory(msg_type, mime_type) ==
  IF msg_type \in {"image", "video"} THEN
    IF msg_type = "image" THEN "images" ELSE "videos"
  ELSE IF msg_type = "audio" THEN "audio"
  ELSE IF msg_type = "document" THEN
    IF startswith(mime_type, "image") THEN "images"
    ELSE IF startswith(mime_type, "video") THEN "video"
    ELSE IF startswith(mime_type, "audio") THEN "audio"
    ELSE "documents"
  ELSE "other"

(* ensure_media_directory of src/config.py: the subdirectories it creates  *)
(* under MEDIA_STORAGE_PATH.                                                *)
ensure_media_directory == {"documents", "images", "audio", "video", "other"}

(* phone.replace("+", "").replace(" ", "")                                 *)
phone_clean(phone) == SelectSeq(phone, LAMBDA c : c \notin {"+", " "})

(* The characters of a name part that are alphanumeric or one of "._-".   *)
SafeParts == ("my file" :> "myfile" @@ " " :> "")

safe_part(part) == IF part \in DOMAIN SafeParts THEN SafeParts[part] ELSE part

safe_name(filename) == [k \in 1..Len(filename) |-> safe_part(filename[k])]

(* original_filename and original_filename.strip()                         *)
HasName(filename) == filename # NoFilename /\ filename \notin {<<"">>, <<" ">>}

(* generate_safe_filename: "{phone}_{type}_{timestamp}_{name}.{extension}" *)
(* with the sanitised original name or, without one, the uuid prefix; the *)
(* result is given by its stem fields and its extension.                   *)
generate_safe_filename(phone, msg_type, mime_type, original_filename, timestamp, unique_id) ==
  [ stem |-> <<phone_clean(phone), msg_type, timestamp,
               IF HasName(original_filename) THEN safe_name(original_filename)
               ELSE <<unique_id>> >>,
    extension |-> get_file_extension(mime_type, original_filename) ]

(* _store_media_data lines 189-196: the place the Storage Writer writes   *)
(* to, under MEDIA_STORAGE_PATH.                                           *)
file_path(phone, msg_type, mime_type, filename, timestamp, unique_id) ==
  [ subdirectory |-> get_media_subdirectory(msg_type, mime_type),
    filename |-> generate_safe_filename(phone, msg_type, mime_type, filename,
                                        timestamp, unique_id) ]

(* Arguments the functions are exercised with.                             *)
Kinds == {"image", "video", "audio", "document", "sticker", "location"}

MimeTypes ==
  { <<"application", "pdf">>, <<"image", "png">>, <<"video", "mp4">>, <<"audio", "ogg">>,
    <<"text", "plain">>, <<"application", "x-custom">>, <<"unknown">> }

Filenames ==
  { NoFilename, <<"">>, <<" ">>, <<"report", "Docx">>, <<"scan", "PDF">>,
    <<"my file", "pdf">>, <<"noext">> }

Phones == { <<"+", "1", "5">>, <<"1", " ", "5">> }

Ceilings == {1 * MiB, 5 * MiB, 16 * MiB, 100 * MiB}

Sizes == {0} \cup UNION {{c - 1, c, c + 1} : c \in Ceilings}

NoCall == [fn |-> "none", args |-> <<>>, result |-> <<>>]

(* upload_to_z_transact / process_z_transact_document: both return None   *)
(* before any request when the token or the URL is not configured.        *)
ZTransactConfigured ==
  ConfigGet("Z_TRANSACT_ACCESS_TOKEN") /\ ConfigGet("Z_TRANSACT_API_URL")

(* _download_media line 110: the credential the fetcher looks up.         *)
DownloadCredential == ConfigGet("TOKEN")

(* ------------------- synchronous path (whatsapp.py) -------------------- *)
(* Inbound messages as process_message reads them: the type and whether   *)
(* the payload carries text.body.                                          *)
WebhookMessages ==
  { [type |-> "text",     body |-> TRUE],
    [type |-> "text",     body |-> FALSE],
    [type |-> "image",    body |-> FALSE],
    [type |-> "sticker",  body |-> FALSE],
    [type |-> "location", body |-> FALSE] }

(* store_message's message_data dict (lines 78-87); keys added later are  *)
(* "unset" until then.                                                     *)
StoredMessage(media) ==
  [ has_media |-> media # None, media_file_path |-> None,
    media_error |-> "unset", z_transact_upload |-> "unset",
    z_transact_process |-> "unset" ]

NoInvocation ==
  [ pc |-> "idle", msg |-> [type |-> "none", body |-> FALSE],
    message_data |-> "unset", io |-> <<>>, outcome |-> "none" ]

Invocation(m) == [NoInvocation EXCEPT !.pc = "start", !.msg = m]

WDid(w, op, outcome) == [w EXCEPT !.io = Append(@, <<op, outcome>>)]

(* The call ended: it returned to its caller or raised.                    *)
Ended(w, how) == [w EXCEPT !.pc = "done", !.outcome = how]

(* process_message lines 221, 241: the kinds for which download_media is  *)
(* called.                                                                 *)
MediaTypes == {"image", "video", "audio", "document", "sticker"}

(* store_message lines 73-110, run without suspension up to the upload    *)
(* await (line 134), for the media dict returned by download_media (None  *)
(* or "dict").  An exception of ensure_media_directory is re-raised       *)
(* (lines 183-185) and again by process_message (lines 268-270); a failed *)
(* write is caught by line 176.  upload_to_z_transact returns None at     *)
(* once when the service is not configured.                                *)
store_message(w, media, size, fs) ==
  LET d == StoredMessage(media) IN
  IF fs = "mkdir_error"
  THEN Ended(WDid(w, "mkdir", "error"), "raised")
  ELSE IF media = None
  THEN Ended([w EXCEPT !.message_data = d], "returned")
  ELSE IF ~validate_file_size(size, w.msg.type)
  THEN Ended([w EXCEPT !.message_data =
                         [d EXCEPT !.has_media = FALSE,
                                   !.media_error = "File size exceeds limit"]],
             "returned")
  ELSE IF fs = "write_error"
  THEN Ended([WDid(w, "write", "error") EXCEPT
                !.message_data = [d EXCEPT !.has_media = FALSE,
                                           !.media_error = "Save failed"]],
             "returned")
  ELSE LET saved == [WDid(w, "write", "ok") EXCEPT
                       !.message_data = [d EXCEPT !.media_file_path = "file_path"]]
       IN  IF ~ZTransactConfigured
           THEN Ended([WDid(saved, "upload", "not_configured") EXCEPT
                         !.message_data.z_transact_upload = "failed"],
                      "returned")
           ELSE [saved EXCEPT !.pc = "upload"]

(* ------------------------------- Init ---------------------------------- *)
(* CONFIG as built by src/config.py from the environment (each variable   *)
(* set or unset); the key "TOKEN" is not among the keys config.py sets,   *)
(* so it is present only if the embedding application added it to the     *)
(* module-level dict.                                                      *)
ShippedConfig(access, zt_token, zt_url) ==
  [k \in ConfigKeys |->
     IF k = "ACCESS_TOKEN" THEN access
     ELSE IF k = "Z_TRANSACT_ACCESS_TOKEN" THEN zt_token
     ELSE zt_url]

WithTokenKey(c) == [k \in (DOMAIN c) \cup {"TOKEN"} |-> IF k = "TOKEN" THEN TRUE ELSE c[k]]

ConfigStates ==
  { ShippedConfig(TRUE, TRUE, TRUE),
    ShippedConfig(FALSE, FALSE, FALSE),
    WithTokenKey(ShippedConfig(TRUE, TRUE, TRUE)),
    WithTokenKey(ShippedConfig(TRUE, TRUE, FALSE)),
    WithTokenKey(ShippedConfig(TRUE, FALSE, TRUE)) }

Init ==
  /\ now = 0
  /\ CONFIG \in ConfigStates
  /\ processed_messages = {}
  /\ message_timestamps = <<>>
  /\ processing_queue = <<>>
  /\ is_processing = FALSE
  /\ tasks = <<>>
  /\ created = 0
  /\ idle_loops = 0
  /\ running = <<>>
  /\ finished = <<>>
  /\ lastCall = [h \in Hashes |-> [any |-> -1, accepted |-> -1, dropped |-> FALSE]]
  /\ raised = FALSE
  /\ webhook = NoInvocation
  /\ file_call = NoCall

(* ------------------------------ actions -------------------------------- *)
(* Passage of wall-clock time.                                             *)
Tick ==
  /\ \E d \in TickSteps : now + d <= MaxTime /\ now' = now + d
  /\ UNCHANGED <<CONFIG, processed_messages, message_timestamps, processing_queue,
                 is_processing, tasks, created, idle_loops, running, finished, lastCall,
                 raised, webhook, file_call>>

(* MediaProcessor.start_processing                                         *)
start_processing ==
  /\ (SpawnsLoop(is_processing) => LiveLoops < MaxWorkers)
  /\ idle_loops' = start_processing_effect(is_processing, idle_loops)
  /\ is_processing' = TRUE
  /\ UNCHANGED <<now, CONFIG, processed_messages, message_timestamps,
                 processing_queue, tasks, created, running, finished, lastCall,
                 raised, webhook, file_call>>

stop_processing_cancels ==
  /\ is_processing' = FALSE
  /\ running' = <<>>
  /\ tasks' = [i \in (DOMAIN tasks) \ (DOMAIN running) |-> tasks[i]]
  /\ idle_loops' = LiveLoops
  /\ UNCHANGED <<now, CONFIG, processed_messages, message_timestamps,
                 processing_queue, created, finished, lastCall, raised, webhook, file_call>>

(* MediaProcessor.stop_processing                                          *)
stop_processing ==
  /\ is_processing' = FALSE
  /\ UNCHANGED <<now, CONFIG, processed_messages, message_timestamps,
                 processing_queue, tasks, created, idle_loops, running, finished,
                 lastCall, raised, webhook, file_call>>

(* MediaProcessor.queue_media_for_processing (no await suspends between   *)
(* the duplicate check and the return: Queue.put on an unbounded queue    *)
(* and start_processing complete without yielding).                        *)
(* is_duplicate raises AttributeError for a non-dict argument; the        *)
(* handler of line 48 logs it and the call returns.                        *)
queue_media_for_processing(m) ==
  IF ~IsDict(m)
  THEN /\ raised' = (raised \/ ~except_Exception("AttributeError"))
       /\ UNCHANGED <<now, CONFIG, processed_messages, message_timestamps,
                      processing_queue, is_processing, tasks, created, idle_loops,
                      running, finished, lastCall, webhook, file_call>>
  ELSE /\ lastCall' = [lastCall EXCEPT ![_generate_message_hash(m)] =
                          [any |-> now,
                           accepted |-> IF IsDuplicateResult(m) THEN @.accepted ELSE now,
                           dropped |-> IsDuplicateResult(m)]]
       /\ is_duplicate(m)
       /\ IF IsDuplicateResult(m)
          THEN UNCHANGED <<processing_queue, tasks, created, is_processing, idle_loops>>
          ELSE /\ created < MaxTasks
               /\ (SpawnsLoop(is_processing) => LiveLoops < MaxWorkers)
               /\ created' = created + 1
               /\ tasks' = Put(tasks, created + 1, NewTask(m))
               /\ processing_queue' = Append(processing_queue, created + 1)
               /\ idle_loops' = start_processing_effect(is_processing, idle_loops)
               /\ is_processing' = TRUE
       /\ UNCHANGED <<now, CONFIG, running, finished, raised, webhook, file_call>>

Enqueue == \E m \in Messages \cup {NotADict} : queue_media_for_processing(m)

(* --------------------------- worker loop ------------------------------- *)
(* The loop processing task i suspends in the await named pc.             *)
Suspend(i, pc, t) ==
  /\ running' = Put(running, i, pc)
  /\ tasks' = [tasks EXCEPT ![i] = t]
  /\ UNCHANGED finished

Return_retry(i, t) == Suspend(i, "meta", t)

(* _process_single_media returned for task i: its dict is dropped and the *)
(* loop is back at queue.get().                                            *)
Return(i, t) ==
  /\ running' = Drop(running, i)
  /\ tasks' = Drop(tasks, i)
  /\ finished' = <<t>>

(* _download_media: the value returned for each way the fetch can end.  *)
(* Every branch but the final 200 returns None (lines 112, 131, 144, 169, *)
(* 173, 176).                                                              *)
_download_media(outcome) == IF outcome = "ok" THEN "dict" ELSE None

Downloaded(t, outcome) == [t EXCEPT !.downloaded_media = _download_media(outcome)]

DownloadFailed_as_failed(t) == SetStatus(t, "failed")

(* _process_single_media lines 81-84: the fetch returned None.            *)
DownloadFailed(t) == SetStatus(t, "download_failed")

(* _process_single_media line 98, reached whenever _store_media_data      *)
(* returns (it catches every exception itself).                            *)
StoreReturned(t) == SetStatus(t, "completed")

(* _process_single_media lines 101-104.                                    *)
ProcessingRaised(t) == [SetStatus(t, "failed") EXCEPT !.error = TRUE]

(* _store_media_data lines 268-271.                                        *)
StorageRaised(t) == [SetStatus(t, "storage_failed") EXCEPT !.error = TRUE]

StoreTimedOut_rollback(t) == [SetStatus(t, "timeout") EXCEPT !.file_path = FALSE]

(* _store_media_data lines 265-267.                                        *)
StoreTimedOut(t) == SetStatus(t, "timeout")

(* _store_media_data lines 261-263.                                        *)
UploadReturnedNone(t) == [t EXCEPT !.z_transact_upload = "failed"]

get_lifo(q) == [item |-> q[Len(q)], rest |-> SubSeq(q, 1, Len(q) - 1)]

(* asyncio.Queue.get (line 58): the oldest item leaves the queue.          *)
get(q) == [item |-> Head(q), rest |-> Tail(q)]

(* Loop body lines 58-59 up to the first suspension: take the head of the *)
(* queue, mark it downloading, and either fail on the missing credential  *)
(* (lines 110-112) or issue the metadata request (line 122).               *)
WorkerGet ==
  /\ idle_loops > 0
  /\ processing_queue # <<>>
  /\ LET i == get(processing_queue).item
         t == SetStatus(tasks[i], "downloading")
     IN  /\ processing_queue' = get(processing_queue).rest
         /\ IF ~DownloadCredential
            THEN Return(i, DownloadFailed(
                             Downloaded(Did(t, "credential", "missing"), "missing")))
                 /\ UNCHANGED idle_loops
            ELSE Suspend(i, "meta", t) /\ idle_loops' = idle_loops - 1
  /\ UNCHANGED <<now, CONFIG, processed_messages, message_timestamps,
                 is_processing, created, lastCall, raised, webhook, file_call>>

LoopCondition_flag_only == is_processing

LoopCondition_queue_only == processing_queue # <<>>

(* Loop condition line 55 found false: the loop ends.                      *)
LoopCondition == is_processing \/ processing_queue # <<>>

WorkerExit ==
  /\ idle_loops > 0
  /\ ~LoopCondition
  /\ idle_loops' = idle_loops - 1
  /\ UNCHANGED <<now, CONFIG, processed_messages, message_timestamps,
                 processing_queue, is_processing, tasks, created, running,
                 finished, lastCall, raised, webhook, file_call>>

(* A loop whose _process_single_media call ended is idle again.           *)
Resume(i) == idle_loops' = IF i \in DOMAIN running' THEN idle_loops ELSE idle_loops + 1

(* An exception left _process_single_media: the loop's handler (line 64)   *)
(* logs it, sleeps and goes on; an exception it does not catch ends the    *)
(* loop.                                                                    *)
LoopHandler(exc) ==
  idle_loops' = IF except_Exception(exc) THEN idle_loops + 1 ELSE idle_loops

(* Metadata response, _download_media lines 127-148.                       *)
MetaOutcomes == {"ok", "no_url", "http_error", "exception"}

MetaResponse(i, r, declared) ==
  /\ i \in DOMAIN running /\ running[i] = "meta"
  /\ LET t == Did(tasks[i], "meta", r) IN
       IF _download_media(r) # None
       THEN Suspend(i, "file", [t EXCEPT !.declared_size = declared])
       ELSE Return(i, DownloadFailed(Downloaded(t, r)))
  /\ Resume(i)
  /\ UNCHANGED <<now, CONFIG, processed_messages, message_timestamps,
                 processing_queue, is_processing, created, lastCall, raised, webhook, file_call>>

(* _store_media_data lines 180-221, run without suspension up to the      *)
(* upload await.  fs is what the file system does: "ok", "mkdir_error"    *)
(* (ensure_media_directory raises) or "write_error" (open/write raises).  *)
(* Result: the task record and whether the coroutine is now suspended in  *)
(* the upload request.                                                     *)
FsOutcomes == {"ok", "mkdir_error", "write_error"}

StoreUntilUpload_no_write(t, size, fs) ==
  [t |-> SetStatus(t, "uploading"), suspended |-> TRUE]

StoreUntilUpload(t, size, fs) ==
  IF fs = "mkdir_error"
  THEN [t |-> StorageRaised(Did(t, "mkdir", "error")), suspended |-> FALSE]
  ELSE IF ~validate_file_size(size, t.msg_type)
  THEN [t |-> t, suspended |-> FALSE]
  ELSE IF fs = "write_error"
  THEN [t |-> StorageRaised(Did(t, "write", "error")), suspended |-> FALSE]
  ELSE LET saved == [Did(t, "write", "ok") EXCEPT !.file_path = TRUE]
           up    == SetStatus(saved, "uploading")
       IN  IF ~ZTransactConfigured
           THEN [t |-> UploadReturnedNone(Did(up, "upload", "not_configured")),
                 suspended |-> FALSE]
           ELSE [t |-> up, suspended |-> TRUE]

(* Content response, _download_media lines 154-176, then                  *)
(* _process_single_media lines 81-98 and _store_media_data up to the      *)
(* upload await.  message_data["from"] raises KeyError for a message      *)
(* without sender (line 90).                                               *)
FileOutcomes == {"ok", "http_error", "exception"}

FileResponse(i, r, size, fs) ==
  /\ i \in DOMAIN running /\ running[i] = "file"
  /\ LET t == Downloaded([Did(tasks[i], "file", r) EXCEPT !.declared_size = -1], r) IN
       IF _download_media(r) = None
       THEN Return(i, DownloadFailed(t)) /\ Resume(i)
       ELSE LET p == SetStatus([t EXCEPT !.file_size = size], "processing") IN
            IF t.message_data.from = None
            THEN IF except_Exception("KeyError")
                 THEN Return(i, ProcessingRaised(p)) /\ Resume(i)
                 ELSE Return(i, p) /\ LoopHandler("KeyError")
            ELSE LET s == StoreUntilUpload(p, size, fs) IN
                 /\ IF s.suspended
                    THEN Suspend(i, "upload", s.t)
                    ELSE Return(i, StoreReturned(s.t))
                 /\ Resume(i)
  /\ UNCHANGED <<now, CONFIG, processed_messages, message_timestamps,
                 processing_queue, is_processing, created, lastCall, raised, webhook, file_call>>

(* Upload outcome, upload_to_z_transact lines 36-49 and _store_media_data *)
(* lines 214-237.  "id": a 2xx body with a truthy id; "no_id_key": a 2xx  *)
(* body without the key "id" (get's default "unknown"); "falsy_id": a 2xx *)
(* body whose id is null/0/empty; "empty_body": a 2xx body that is an     *)
(* empty object (falsy); "timeout": wait_for's 30 s elapsed.               *)
UploadOutcomes ==
  {"id", "no_id_key", "falsy_id", "empty_body", "http_error", "exception", "timeout"}

UploadResult(r) ==
  IF r \in {"id", "no_id_key", "falsy_id"} THEN "dict" ELSE "None"

DocumentId(r) ==
  IF r = "id" THEN "42" ELSE IF r = "no_id_key" THEN "unknown" ELSE "falsy"

UploadSucceeded(t, r) ==
  [t EXCEPT !.z_transact_upload = "success", !.document_id = DocumentId(r)]

EnterSettle_skipped(i, t) == Suspend(i, "process", t)

(* _store_media_data lines 232-237: the coroutine enters the fixed delay  *)
(* that precedes the process call.                                         *)
EnterSettle(i, t) == Suspend(i, "settle", t)

UploadResponse(i, r) ==
  /\ i \in DOMAIN running /\ running[i] = "upload"
  /\ LET t == Did(tasks[i], "upload", r) IN
       IF r = "timeout"
       THEN Return(i, StoreReturned(StoreTimedOut(t)))
       ELSE IF UploadResult(r) = "None"
       THEN Return(i, StoreReturned(UploadReturnedNone(t)))
       ELSE IF DocumentId(r) = "falsy"
       THEN Return(i, StoreReturned(UploadSucceeded(t, r)))
       ELSE EnterSettle(i, SetStatus(UploadSucceeded(t, r), "processing_z_transact"))
  /\ Resume(i)
  /\ UNCHANGED <<now, CONFIG, processed_messages, message_timestamps,
                 processing_queue, is_processing, created, lastCall, raised, webhook, file_call>>

(* _store_media_data lines 245-258: what the process call's outcome       *)
(* records on the task.                                                    *)
ProcessOutcomes ==
  {"success_listed", "failed_listed", "unlisted", "empty_body",
   "http_error", "exception", "timeout"}

ProcessRecorded(r) ==
  IF r = "timeout" THEN "timeout"
  ELSE IF r \in {"success_listed", "failed_listed", "unlisted"} THEN "success"
  ELSE "failed"

ProcessReturned(t, r) == [t EXCEPT !.z_transact_process = ProcessRecorded(r)]

(* The settle delay (line 237) is over: process_z_transact_document is    *)
(* called; it returns None at once when the service is not configured.     *)
SettleDone(i) ==
  /\ i \in DOMAIN running /\ running[i] = "settle"
  /\ LET t == Did(tasks[i], "sleep", "elapsed") IN
       IF ~ZTransactConfigured
       THEN Return(i, StoreReturned(
                        ProcessReturned(Did(t, "process", "not_configured"), "not_configured")))
       ELSE Suspend(i, "process", t)
  /\ Resume(i)
  /\ UNCHANGED <<now, CONFIG, processed_messages, message_timestamps,
                 processing_queue, is_processing, created, lastCall, raised, webhook, file_call>>

(* Process outcome, process_z_transact_document lines 84-106 and          *)
(* _store_media_data lines 245-258, then _process_single_media line 98.   *)
ProcessResponse(i, r) ==
  /\ i \in DOMAIN running /\ running[i] = "process"
  /\ Return(i, StoreReturned(ProcessReturned(Did(tasks[i], "process", r), r)))
  /\ Resume(i)
  /\ UNCHANGED <<now, CONFIG, processed_messages, message_timestamps,
                 processing_queue, is_processing, created, lastCall, raised, webhook, file_call>>

(* ----------------------- file_handler.py calls ------------------------- *)
handler_frame ==
  <<now, CONFIG, processed_messages, message_timestamps, processing_queue,
    is_processing, tasks, created, idle_loops, running, finished, lastCall, raised,
    webhook>>

CallValidateFileSize ==
  /\ \E size \in Sizes, kind \in Kinds :
       file_call' = [fn |-> "validate_file_size", args |-> <<size, kind>>,
                     result |-> validate_file_size(size, kind)]
  /\ UNCHANGED handler_frame

CallGetMediaSubdirectory ==
  /\ \E kind \in Kinds, mime \in MimeTypes :
       file_call' = [fn |-> "get_media_subdirectory", args |-> <<kind, mime>>,
                     result |-> get_media_subdirectory(kind, mime)]
  /\ UNCHANGED handler_frame

CallGetFileExtension ==
  /\ \E mime \in MimeTypes, name \in Filenames :
       file_call' = [fn |-> "get_file_extension", args |-> <<mime, name>>,
                     result |-> get_file_extension(mime, name)]
  /\ UNCHANGED handler_frame

(* The Storage Writer derives the path of the file it writes.              *)
CallFilePath ==
  /\ \E phone \in Phones, kind \in Kinds, mime \in MimeTypes, name \in Filenames :
       file_call' = [fn |-> "file_path", args |-> <<phone, kind, mime, name>>,
                     result |-> file_path(phone, kind, mime, name, "20240101_000000", "1a2b3c4d")]
  /\ UNCHANGED handler_frame

FileHandlerNext ==
  \/ CallValidateFileSize
  \/ CallGetMediaSubdirectory
  \/ CallGetFileExtension
  \/ CallFilePath

FileHandlerSpec == Init /\ [][FileHandlerNext]_vars

(* ----------------------- deduplicator key calls ------------------------ *)
(* MessageDeduplicator._generate_message_hash applied to a payload.        *)
CallGenerateMessageHash ==
  /\ \E d \in Payloads :
       file_call' = [fn |-> "_generate_message_hash", args |-> <<d>>,
                     result |-> _generate_message_hash(key_fields(d))]
  /\ UNCHANGED handler_frame

HashSpec == Init /\ [][CallGenerateMessageHash]_vars

(* ----------------- synchronous path: process_message ------------------- *)
pipeline_vars ==
  <<now, CONFIG, processed_messages, message_timestamps, processing_queue,
    is_processing, tasks, created, idle_loops, running, finished, lastCall, raised,
    file_call>>

(* process_message lines 187-270 up to its first suspension.  A media     *)
(* kind calls download_media, which returns None at once without the      *)
(* credential (whatsapp.py line 16) and otherwise issues the metadata     *)
(* request; a text message reads msg["text"]["body"] (KeyError if absent, *)
(* not caught); any other kind goes straight to store_message.            *)
process_message(m, fs) ==
  /\ webhook.pc \in {"idle", "done"}
  /\ LET w == Invocation(m) IN
       webhook' =
         IF m.type \in MediaTypes
         THEN IF ~ConfigGet("ACCESS_TOKEN")
              THEN store_message(WDid(w, "credential", "missing"), None, 0, fs)
              ELSE [w EXCEPT !.pc = "meta"]
         ELSE IF m.type = "text" /\ ~m.body
         THEN Ended(w, "raised")
         ELSE store_message(w, None, 0, fs)
  /\ UNCHANGED pipeline_vars

(* download_media lines 29-43: the metadata response.                      *)
WebhookMetaResponse(r, fs) ==
  /\ webhook.pc = "meta"
  /\ LET w == WDid(webhook, "meta", r) IN
       webhook' = IF r = "ok"
                  THEN [w EXCEPT !.pc = "file"]
                  ELSE store_message(w, None, 0, fs)
  /\ UNCHANGED pipeline_vars

(* download_media lines 52-69: the content response, then store_message.  *)
WebhookFileResponse(r, size, fs) ==
  /\ webhook.pc = "file"
  /\ LET w == WDid(webhook, "file", r) IN
       webhook' = IF r = "ok"
                  THEN store_message(w, "dict", size, fs)
                  ELSE store_message(w, None, 0, fs)
  /\ UNCHANGED pipeline_vars

(* store_message lines 134-174: the upload's result.  No wait_for guards  *)
(* it; document_id is z_transact_result.get("id"), without a default.      *)
WebhookUploadResponse(r) ==
  /\ webhook.pc = "upload"
  /\ LET w == WDid(webhook, "upload", r) IN
       webhook' =
         IF UploadResult(r) = "None"
         THEN Ended([w EXCEPT !.message_data.z_transact_upload = "failed"], "returned")
         ELSE LET up == [w EXCEPT !.message_data.z_transact_upload = "success"] IN
              IF r = "id"
              THEN [up EXCEPT !.pc = "settle"]
              ELSE Ended(up, "returned")
  /\ UNCHANGED pipeline_vars

(* store_message line 152: the delay before the process call is over.      *)
WebhookSettleDone ==
  /\ webhook.pc = "settle"
  /\ webhook' = [webhook EXCEPT !.pc = "process"]
  /\ UNCHANGED pipeline_vars

(* store_message lines 154-166: the process call's result.                 *)
WebhookProcessResponse(r) ==
  /\ webhook.pc = "process"
  /\ webhook' =
       Ended([WDid(webhook, "process", r) EXCEPT
                !.message_data.z_transact_process = ProcessRecorded(r)],
             "returned")
  /\ UNCHANGED pipeline_vars

WebhookStart == \E m \in WebhookMessages, fs \in {"ok", "mkdir_error"} : process_message(m, fs)
WebhookMeta == \E r \in MetaOutcomes, fs \in {"ok", "mkdir_error"} : WebhookMetaResponse(r, fs)
WebhookFile == \E r \in FileOutcomes, size \in FileSizes, fs \in FsOutcomes :
                 WebhookFileResponse(r, size, fs)
WebhookUpload == \E r \in UploadOutcomes \ {"timeout"} : WebhookUploadResponse(r)
WebhookProcess == \E r \in ProcessOutcomes \ {"timeout"} : WebhookProcessResponse(r)

WebhookNext ==
  \/ WebhookStart
  \/ WebhookMeta
  \/ WebhookFile
  \/ WebhookUpload
  \/ WebhookSettleDone
  \/ WebhookProcess

WebhookSpec == Init /\ [][WebhookNext]_vars

(* --------------------------- specification ----------------------------- *)
Meta == \E i \in DOMAIN running, r \in MetaOutcomes :
          \E declared \in MetaFileSize(r) : MetaResponse(i, r, declared)
File == \E i \in DOMAIN running, r \in FileOutcomes, size \in FileSizes, fs \in FsOutcomes :
          FileResponse(i, r, size, fs)
Upload == \E i \in DOMAIN running, r \in UploadOutcomes : UploadResponse(i, r)
Settle == \E i \in DOMAIN running : SettleDone(i)
Process == \E i \in DOMAIN running, r \in ProcessOutcomes : ProcessResponse(i, r)

Next ==
  \/ Tick
  \/ Enqueue
  \/ start_processing
  \/ stop_processing
  \/ WorkerGet
  \/ WorkerExit
  \/ Meta
  \/ File
  \/ Upload
  \/ Settle
  \/ Process

Spec == Init /\ [][Next]_vars

(* Scheduling: the event loop runs every coroutine that is ready, so an   *)
(* idle loop facing a non-empty queue takes a task (queue.get returns     *)
(* within its 1 s wait), and every awaited request ends: with a response, *)
(* an error, or the timeout set on it (httpx timeouts of lines 115 and    *)
(* 151, the 60 s client timeout of z_transact.py, wait_for's 30 s, the    *)
(* 30 s sleep).                                                            *)
Fairness ==
  /\ WF_vars(WorkerGet)
  /\ WF_vars(Meta)
  /\ WF_vars(File)
  /\ WF_vars(Upload)
  /\ WF_vars(Settle)
  /\ WF_vars(Process)

(* The clock is read by the deduplicator only; the worker's progress does  *)
(* not depend on it, so the specification of the worker's progress holds   *)
(* the clock still.                                                         *)
WorkerNext ==
  \/ Enqueue
  \/ start_processing
  \/ stop_processing
  \/ WorkerGet
  \/ WorkerExit
  \/ Meta
  \/ File
  \/ Upload
  \/ Settle
  \/ Process

FairSpec == Init /\ [][WorkerNext]_vars /\ Fairness

TypeOK ==
  /\ now \in 0..(MaxTime + 1)
  /\ is_processing \in BOOLEAN
  /\ processed_messages \subseteq Hashes
  /\ DOMAIN message_timestamps = processed_messages
  /\ created \in 0..(MaxTasks + 1)
  /\ DOMAIN tasks \subseteq 1..created
  /\ \A k \in 1..Len(processing_queue) : processing_queue[k] \in DOMAIN tasks
  /\ idle_loops \in 0..(MaxWorkers + 1)
  /\ DOMAIN running \subseteq DOMAIN tasks
  /\ Len(finished) <= 1
  /\ raised \in BOOLEAN
  /\ webhook.pc \in {"idle", "meta", "file", "upload", "settle", "process", "done"}
  /\ webhook.outcome \in {"none", "returned", "raised"}

(* ------------------------------ claims --------------------------------- *)
(* Every processing_data dict the state holds: those in flight and the    *)
(* most recently finished one.                                             *)
AllTasks == {tasks[i] : i \in DOMAIN tasks} \cup {finished[k] : k \in 1..Len(finished)}

KeyOf(t) == _generate_message_hash(t.message_data)

CreatesTask == created' = created + 1

NoOpOnQueue == UNCHANGED <<tasks, processing_queue, created>>

(* C1, as stated: a queue_media_for_processing call made no later than    *)
(* the expiry window after ANY earlier call with the same key creates no  *)
(* task and leaves the queue unchanged.                                    *)
C1_AnyTwoCallsWithinWindow ==
  [][\A m \in Messages :
       LET h == _generate_message_hash(m) IN
       ( /\ queue_media_for_processing(m)
         /\ lastCall[h].any >= 0
         /\ now - lastCall[h].any <= expiry_minutes )
       => NoOpOnQueue]_vars

(* C1, amended: a queue_media_for_processing call made no later than the  *)
(* expiry window after the call that was ACCEPTED for the same key (the   *)
(* one that inserted the key and created its task) creates no task and    *)
(* leaves the queue unchanged; so at most one task is created for a key   *)
(* within any expiry window.                                               *)
C1_DuplicateOfAcceptedIsNoOp ==
  [][\A m \in Messages :
       LET h == _generate_message_hash(m) IN
       ( /\ queue_media_for_processing(m)
         /\ lastCall[h].accepted >= 0
         /\ now - lastCall[h].accepted <= expiry_minutes )
       => NoOpOnQueue]_vars

(* C1 witness: a repeat of an accepted key arrived later, inside the      *)
(* window, and was dropped.                                                *)
C1_Witness ==
  \E h \in Hashes :
    /\ lastCall[h].accepted >= 0
    /\ lastCall[h].any > lastCall[h].accepted
    /\ lastCall[h].any - lastCall[h].accepted <= expiry_minutes
    /\ created = 1

(* C2, as stated: once more than the expiry window has passed since the   *)
(* key was inserted, a repeat of the message is accepted (is_duplicate    *)
(* returns false and a task is created), whatever happened in between.    *)
C2_RepeatAfterWindowAccepted ==
  [][\A m \in Messages :
       LET h == _generate_message_hash(m) IN
       ( /\ queue_media_for_processing(m)
         /\ lastCall[h].accepted >= 0
         /\ now - lastCall[h].accepted > expiry_minutes )
       => (~IsDuplicateResult(m) /\ CreatesTask)]_vars

InFlight == DOMAIN tasks

(* C3, as stated: at most one task with a given deduplication key is in   *)
(* flight (queued or being processed).                                     *)
C3_OneInFlightPerKey ==
  \A i, j \in InFlight : KeyOf(tasks[i]) = KeyOf(tasks[j]) => i = j

(* C3, amended: two tasks with the same key are in flight together only   *)
(* if their keys were inserted more than the expiry window apart; so      *)
(* among the tasks accepted within one expiry window at most one per key  *)
(* is in flight.                                                           *)
C3_OneInFlightPerKeyPerWindow ==
  \A i, j \in InFlight :
    (i < j /\ KeyOf(tasks[i]) = KeyOf(tasks[j]))
      => tasks[j].timestamp - tasks[i].timestamp > expiry_minutes

(* C3 witness: two tasks with the same key are in flight together.        *)
C3_Witness ==
  \E i, j \in InFlight : i < j /\ KeyOf(tasks[i]) = KeyOf(tasks[j])

(* C4, as stated: at most one worker loop is draining the queue, so at    *)
(* most one task is being processed (past queued, not yet terminal).      *)
C4_OneTaskAtATime ==
  /\ LiveLoops <= 1
  /\ Cardinality(DOMAIN running) <= 1

(* What the environment answered for a task.                              *)
Outcomes(t, op) == {t.io[k][2] : k \in {n \in 1..Len(t.io) : t.io[n][1] = op}}

Performed(t, op) == Outcomes(t, op) # {}

Finished == {finished[k] : k \in 1..Len(finished)}

(* The media fetch failed: no credential, a metadata answer that is not a *)
(* 200 with a download URL, a content answer that is not a 200, or an     *)
(* error or timeout of either request.                                     *)
FetchFailed(t) ==
  \/ "missing" \in Outcomes(t, "credential")
  \/ Outcomes(t, "meta") \ {"ok"} # {}
  \/ Outcomes(t, "file") \ {"ok"} # {}

(* C5: a task whose media fetch failed has terminated with status         *)
(* download_failed, no file was written for it, and neither the upload    *)
(* nor the process call was made for it.                                   *)
C5_FetchFailureEndsDownloadFailed ==
  /\ \A i \in InFlight : ~FetchFailed(tasks[i])
  /\ \A t \in Finished :
       FetchFailed(t) =>
         /\ t.status = "download_failed"
         /\ ~t.file_path
         /\ ~Performed(t, "write")
         /\ ~Performed(t, "upload")
         /\ ~Performed(t, "process")

(* C5 witness: the metadata lookup answered with an HTTP error (404) and  *)
(* the task ended download_failed.                                         *)
C5_Witness ==
  \E t \in Finished :
    "http_error" \in Outcomes(t, "meta") /\ t.status = "download_failed"

(* The status sequence of scenario B, in the code's status names          *)
(* (processing_local is "processing", processing_remote is                *)
(* "processing_z_transact").                                               *)
HappyPath ==
  <<"queued", "downloading", "processing", "uploading", "processing_z_transact", "completed">>

(* No request made for the task was answered with a failure, and the      *)
(* downloaded size is within the ceiling of the task's kind.               *)
EverythingSucceeded(t) ==
  /\ Outcomes(t, "meta") \subseteq {"ok"}
  /\ Outcomes(t, "file") \subseteq {"ok"}
  /\ ~Performed(t, "mkdir")
  /\ Outcomes(t, "write") \subseteq {"ok"}
  /\ Outcomes(t, "upload") \subseteq {"id"}
  /\ Outcomes(t, "process") \subseteq {"success_listed"}
  /\ (t.file_size >= 0 => validate_file_size(t.file_size, t.msg_type))

(* C6, as stated: with the platform credential (ACCESS_TOKEN) and the     *)
(* document service configured, a well-formed image task for which every  *)
(* request succeeds ends with the status sequence queued, downloading,    *)
(* processing_local, uploading, processing_remote, completed.              *)
C6_HappyPathStatusSequence ==
  \A t \in Finished :
    ( /\ ConfigGet("ACCESS_TOKEN")
      /\ ZTransactConfigured
      /\ t.msg_type = "image"
      /\ t.message_data.from # None
      /\ EverythingSucceeded(t) )
    => t.hist = HappyPath

FailureStatuses ==
  {"download_failed", "storage_failed", "upload_failed", "remote_process_failed", "timeout"}

(* C7, as stated: once a task's status has been set to a failure status,  *)
(* the status is never assigned again.                                     *)
C7_FailureStatusesTerminal ==
  \A t \in AllTasks :
    \A k \in 1..Len(t.hist) : t.hist[k] \in FailureStatuses => k = Len(t.hist)

(* C8, as stated: a task whose upload timed out or was answered without   *)
(* success ends with status upload_failed, and the process call is not    *)
(* made for it.                                                            *)
UploadFailures == {"timeout", "http_error", "exception", "empty_body"}

C8_UploadFailureEndsUploadFailed ==
  \A t \in Finished :
    Outcomes(t, "upload") \cap UploadFailures # {}
      => (t.status = "upload_failed" /\ ~Performed(t, "process"))

(* C9, as stated: the final status of a task whose process call was made  *)
(* is timeout if the call timed out, remote_process_failed if it was      *)
(* answered without success, and completed if it succeeded.                *)
C9_ProcessOutcomeDecidesStatus ==
  \A t \in Finished :
    /\ "timeout" \in Outcomes(t, "process") => t.status = "timeout"
    /\ Outcomes(t, "process") \cap {"http_error", "exception", "empty_body"} # {}
         => t.status = "remote_process_failed"
    /\ "success_listed" \in Outcomes(t, "process") => t.status = "completed"

(* C10, as stated: a task whose local write failed ends with status       *)
(* storage_failed, and the upload is not made for it.                      *)
C10_WriteFailureEndsStorageFailed ==
  \A t \in Finished :
    "error" \in Outcomes(t, "write")
      => (t.status = "storage_failed" /\ ~Performed(t, "upload"))

(* The store step ran for the task with a media item larger than the      *)
(* ceiling of its kind (the directory check did not fail before the size  *)
(* was validated).                                                         *)
Oversize(t) ==
  /\ t.file_size >= 0
  /\ ~validate_file_size(t.file_size, t.msg_type)
  /\ t.message_data.from # None
  /\ ~Performed(t, "mkdir")

(* C11, as stated: a task whose media item exceeds the ceiling of its     *)
(* kind ends completed, with no file written and no upload made, and with *)
(* an error note attached that records the rejection.                      *)
C11_OversizeCompletedWithNote ==
  \A t \in Finished :
    Oversize(t) =>
      /\ t.status = "completed"
      /\ ~t.file_path
      /\ ~Performed(t, "write")
      /\ ~Performed(t, "upload")
      /\ t.error

(* C12, as stated: a task whose upload succeeded with a response that     *)
(* holds no document identifier never enters processing_remote, the       *)
(* process call is never made for it, and it ends completed.               *)
C12_NoDocumentIdSkipsProcess ==
  \A t \in AllTasks :
    Outcomes(t, "upload") \cap {"no_id_key", "falsy_id"} # {} =>
      /\ \A k \in 1..Len(t.hist) : t.hist[k] # "processing_z_transact"
      /\ ~Performed(t, "process")
      /\ (t \in Finished => t.status = "completed")

(* C13, as stated: when the document service answers 200/201 but lists    *)
(* the submitted id under failed, or under neither list, the task does    *)
(* not record remote processing as successful.                             *)
C13_ProcessOutcomeOfSubmittedId ==
  \A t \in Finished :
    Outcomes(t, "process") \cap {"failed_listed", "unlisted"} # {}
      => t.z_transact_process # "success"

(* C14: no exception ever propagates out of queue_media_for_processing,   *)
(* whatever its argument; a call with a non-dict argument changes nothing,*)
(* and a failure of a later stage is recorded on the task only.            *)
C14_EnqueueNeverRaises ==
  /\ [](~raised)
  /\ [][queue_media_for_processing(NotADict) => NoOpOnQueue]_vars
  /\ [][raised' = raised \/ \E m \in Messages \cup {NotADict} : queue_media_for_processing(m)]_vars

(* C14 witness: a message without sender was enqueued, its processing     *)
(* failed in the worker with the failure recorded on the task, and        *)
(* nothing was raised to the caller of enqueue.                            *)
C14_Witness ==
  /\ ~raised
  /\ \E t \in Finished :
       t.message_data.from = None /\ t.status = "failed" /\ t.error

(* C15: when queue_media_for_processing returns, the task it created is   *)
(* at the tail of the queue with status queued and no pipeline operation  *)
(* performed for it; a task still in the queue has never been touched by  *)
(* the pipeline.                                                           *)
C15_EnqueueReturnsBeforePipeline ==
  /\ [](\A k \in 1..Len(processing_queue) :
          LET t == tasks[processing_queue[k]] IN
          t.status = "queued" /\ t.hist = <<"queued">> /\ t.io = <<>>)
  /\ [][\A m \in Messages :
          (queue_media_for_processing(m) /\ CreatesTask) =>
             /\ processing_queue' = Append(processing_queue, created')
             /\ created' \notin DOMAIN running'
             /\ tasks'[created'].status = "queued"
             /\ tasks'[created'].io = <<>>]_vars

(* C15 witness: a call has returned with its task queued while a worker   *)
(* loop is alive and has not taken it yet.                                 *)
C15_Witness ==
  /\ processing_queue # <<>>
  /\ idle_loops > 0
  /\ tasks[processing_queue[Len(processing_queue)]].status = "queued"

(* C17: a worker loop ends only in a state where is_processing is false   *)
(* (stop_processing was called after the loop was started) and the queue  *)
(* is empty, and only while it is not processing a task.                   *)
C17_LoopExitsOnlyStoppedAndDrained ==
  [][LiveLoops' < LiveLoops =>
       /\ ~is_processing
       /\ processing_queue = <<>>
       /\ running' = running]_vars

(* C17 witness: tasks were queued, one has been processed, and every      *)
(* worker loop has ended.                                                  *)
C17_Witness ==
  /\ created > 0
  /\ Len(finished) = 1
  /\ LiveLoops = 0
  /\ ~is_processing
  /\ processing_queue = <<>>

(* The three failure causes of the media fetch the specification tells    *)
(* apart.                                                                  *)
FailureCause(t) ==
  IF "missing" \in Outcomes(t, "credential") THEN "configuration_missing"
  ELSE IF "exception" \in (Outcomes(t, "meta") \cup Outcomes(t, "file")) THEN "transient"
  ELSE IF "http_error" \in (Outcomes(t, "meta") \cup Outcomes(t, "file")) THEN "remote_non_200"
  ELSE "other"

(* C20, as stated: two fetches that failed for different causes           *)
(* (credential missing, network error or timeout, remote non-200) never   *)
(* hand the same failure value to their caller.                            *)
C20_FetchFailureCausesDistinct ==
  [][\A a \in Finished : \A b \in {finished'[k] : k \in 1..Len(finished')} :
       ( /\ FetchFailed(a) /\ FetchFailed(b)
         /\ FailureCause(a) # "other" /\ FailureCause(b) # "other"
         /\ FailureCause(a) # FailureCause(b) )
       => a.downloaded_media # b.downloaded_media]_vars

TaskIds == 1..MaxTasks

(* A step that ends the processing of a task.                              *)
TaskEnds == created' = created /\ DOMAIN tasks' # DOMAIN tasks

(* C16: the end of a task's processing, whatever its outcome, never ends  *)
(* the worker loop that processed it, and every task in the queue is      *)
(* eventually taken from the queue and processed to its end.               *)
C16_FailureDoesNotStopLoop ==
  /\ [][TaskEnds => LiveLoops' = LiveLoops]_vars
  /\ \A i \in TaskIds :
       (i \in DOMAIN tasks) ~> (i \notin DOMAIN tasks /\ created >= i)

(* C16 witness: a task has failed on an unexpected exception (a message   *)
(* without its sender field), another task is in the queue, and the loop  *)
(* is alive, waiting at the queue.                                         *)
C16_Witness ==
  /\ Len(finished) = 1
  /\ finished[1].status = "failed"
  /\ finished[1].message_data.from = None
  /\ processing_queue # <<>>
  /\ idle_loops > 0

TerminalStatuses == {"download_failed", "completed", "failed"}

(* C18: stop_processing changes neither the task being processed nor the  *)
(* await its loop is suspended in; a loop never ends while it is          *)
(* processing a task; and a task that is being processed while the        *)
(* processor is stopped goes on to its end, with a terminal status.        *)
C18_StopLetsInFlightTaskFinish ==
  /\ [][stop_processing => UNCHANGED <<tasks, running, processing_queue, idle_loops>>]_vars
  /\ [][LiveLoops' < LiveLoops => UNCHANGED <<tasks, running>>]_vars
  /\ [](\A t \in Finished : t.status \in TerminalStatuses)
  /\ \A i \in TaskIds :
       (i \in DOMAIN running /\ ~is_processing) ~> (i \notin DOMAIN tasks)

(* C18 witness: stop_processing was called while a task was being         *)
(* processed, and the task is still in its pipeline, past the download.   *)
C18_Witness ==
  /\ ~is_processing
  /\ \E i \in DOMAIN running :
       running[i] \in {"upload", "settle", "process"} /\ tasks[i].file_path

(* C19, as stated: the processing of an inbound text message performs no  *)
(* metadata lookup, download, write or upload, and it resolves at once to *)
(* completion (process_message returns) with no media and no file path    *)
(* recorded.                                                               *)
C19_TextResolvesDirectly ==
  (webhook.msg.type = "text" /\ webhook.msg.body) =>
    /\ webhook.pc = "done"
    /\ \A k \in 1..Len(webhook.io) :
         webhook.io[k][1] \notin {"meta", "file", "write", "upload", "process"}
    /\ webhook.outcome = "returned"
    /\ ~webhook.message_data.has_media
    /\ webhook.message_data.media_file_path = None

(* The five subdirectories of the persisted layout.                       *)
LayoutSubdirectories == {"images", "videos", "audio", "documents", "other"}

(* C21, as stated: for every message kind and MIME type the subdirectory  *)
(* resolved by get_media_subdirectory, and so the subdirectory of every   *)
(* path the Storage Writer writes to, is one of images, videos, audio,    *)
(* documents, other.                                                       *)
C21_SubdirectoryInLayout ==
  /\ file_call.fn = "get_media_subdirectory" => file_call.result \in LayoutSubdirectories
  /\ file_call.fn = "file_path" => file_call.result.subdirectory \in LayoutSubdirectories

MediaPrefixes == {"image", "video", "audio"}

(* C22: a document whose MIME type starts with image/ is placed under     *)
(* images, not documents; a document whose MIME type has none of the      *)
(* prefixes image/, video/, audio/ is placed under documents.              *)
C22_DocumentPlacedByMime ==
  (file_call.fn = "get_media_subdirectory" /\ file_call.args[1] = "document") =>
    LET mime == file_call.args[2] IN
    /\ (Len(mime) > 1 /\ mime[1] = "image") => file_call.result = "images"
    /\ (Len(mime) = 1 \/ mime[1] \notin MediaPrefixes) => file_call.result = "documents"

(* C22 witness: a document of MIME type image/png was placed under        *)
(* images.                                                                 *)
C22_Witness ==
  /\ file_call.fn = "get_media_subdirectory"
  /\ file_call.args = <<"document", <<"image", "png">> >>
  /\ file_call.result = "images"

IsPdf(mime) == mime = <<"application", "pdf">>

(* C23, as stated: the path of a file written for MIME type               *)
(* application/pdf has extension pdf and subdirectory documents, for      *)
(* every message kind and original file name.                              *)
C23_PdfAlwaysInDocuments ==
  (file_call.fn = "file_path" /\ IsPdf(file_call.args[3])) =>
    /\ file_call.result.filename.extension = "pdf"
    /\ file_call.result.subdirectory = "documents"

(* C23, amended: the path of a file written for MIME type application/pdf *)
(* has extension pdf for every message kind and original file name; its   *)
(* subdirectory is documents when the message kind is document, and for   *)
(* the other kinds the kind decides (images, videos, audio, other).        *)
C23_PdfExtensionAndDocumentKind ==
  /\ (file_call.fn = "get_file_extension" /\ IsPdf(file_call.args[1])) =>
       file_call.result = "pdf"
  /\ (file_call.fn = "file_path" /\ IsPdf(file_call.args[3])) =>
       LET kind == file_call.args[2] IN
       /\ file_call.result.filename.extension = "pdf"
       /\ kind = "document" => file_call.result.subdirectory = "documents"
       /\ kind = "image" => file_call.result.subdirectory = "images"
       /\ kind = "video" => file_call.result.subdirectory = "videos"
       /\ kind = "audio" => file_call.result.subdirectory = "audio"
       /\ kind \notin {"document", "image", "video", "audio"} =>
            file_call.result.subdirectory = "other"

(* C23 witness: a document of MIME type application/pdf whose original    *)
(* name ends in .Docx got extension pdf under documents.                   *)
C23_Witness ==
  /\ file_call.fn = "file_path"
  /\ file_call.args[2] = "document"
  /\ IsPdf(file_call.args[3])
  /\ file_call.args[4] = <<"report", "Docx">>
  /\ file_call.result.filename.extension = "pdf"
  /\ file_call.result.subdirectory = "documents"

(* The ceilings the specification lists, in bytes.                         *)
Ceiling(kind) ==
  IF kind = "image" THEN 5 * 1048576
  ELSE IF kind = "video" THEN 100 * 1048576
  ELSE IF kind = "audio" THEN 16 * 1048576
  ELSE IF kind = "document" THEN 100 * 1048576
  ELSE IF kind = "sticker" THEN 1 * 1048576
  ELSE 100 * 1048576

(* C24: validate_file_size(size, kind) is true exactly when size does not *)
(* exceed the ceiling of the kind (100 MiB for an unrecognized kind): the *)
(* ceiling itself is accepted, one byte more is rejected.                  *)
C24_ValidateFileSizeExact ==
  file_call.fn = "validate_file_size" =>
    (file_call.result <=> file_call.args[1] <= Ceiling(file_call.args[2]))

(* C24 witness: an image of exactly 5 MiB was accepted.                    *)
C24_Witness ==
  /\ file_call.fn = "validate_file_size"
  /\ file_call.args = <<5 * 1048576, "image">>
  /\ file_call.result = TRUE

UploadGaveDocument == {"id", "no_id_key"}

(* The entries k, k+1 of the task's operations are a successful upload    *)
(* followed by the elapsed delay.                                          *)
UploadThenDelay(t, k) ==
  /\ k >= 1 /\ k + 1 <= Len(t.io)
  /\ t.io[k][1] = "upload" /\ t.io[k][2] \in UploadGaveDocument
  /\ t.io[k + 1] = <<"sleep", "elapsed">>

(* C26: the process call of a task is issued only after its upload has    *)
(* succeeded and the delay that follows the upload has fully elapsed:     *)
(* while the task is in the delay no process call has been made, and a    *)
(* process call in progress or completed is preceded by both.              *)
C26_ProcessOnlyAfterDelay ==
  /\ \A i \in DOMAIN running :
       /\ running[i] = "settle" =>
            /\ ~Performed(tasks[i], "process")
            /\ ~Performed(tasks[i], "sleep")
       /\ running[i] = "process" => UploadThenDelay(tasks[i], Len(tasks[i].io) - 1)
  /\ \A t \in AllTasks :
       \A k \in 1..Len(t.io) : t.io[k][1] = "process" => UploadThenDelay(t, k - 2)

(* C26 witness: a process call is in progress.                             *)
C26_Witness ==
  \E i \in DOMAIN running :
    running[i] = "process" /\ Performed(tasks[i], "sleep")

Count(t, op) == Cardinality({k \in 1..Len(t.io) : t.io[k][1] = op})

(* C27: for each task the metadata lookup, the download, the write, the   *)
(* upload and the process call are each performed at most once, whatever  *)
(* their outcome, and a task in the queue has never been processed (no    *)
(* task is put back).                                                      *)
C27_NoRetry ==
  /\ \A t \in AllTasks :
       \A op \in {"credential", "meta", "file", "write", "upload", "sleep", "process"} :
         Count(t, op) <= 1
  /\ \A k, l \in 1..Len(processing_queue) :
       processing_queue[k] = processing_queue[l] => k = l
  /\ \A k \in 1..Len(processing_queue) :
       tasks[processing_queue[k]].hist = <<"queued">>

(* C27 witness: a task whose upload failed has ended, and the queue is    *)
(* empty.                                                                  *)
C27_Witness ==
  /\ processing_queue = <<>>
  /\ \E t \in Finished :
       "http_error" \in Outcomes(t, "upload") /\ Count(t, "upload") = 1

Queued == {processing_queue[k] : k \in 1..Len(processing_queue)}

(* C28: tasks leave the queue in the order they were accepted: a task     *)
(* that has left the queue (entered downloading) was accepted before      *)
(* every task still in the queue, and the queue holds its tasks in        *)
(* acceptance order.                                                       *)
C28_FifoOrder ==
  /\ \A i \in Queued : \A j \in 1..created : j \notin Queued => j < i
  /\ \A k, l \in 1..Len(processing_queue) :
       k < l => processing_queue[k] < processing_queue[l]

(* C28 witness: the first accepted task has entered downloading while    *)
(* the second is still queued.                                             *)
C28_Witness ==
  /\ created = 2
  /\ 1 \in DOMAIN running
  /\ processing_queue = <<2>>

(* C29: within a task the stages run in the order fetch, write, upload,   *)
(* process, each only after the previous one succeeded: no document id    *)
(* without a file path, no file path without a successful download.        *)
C29_StageOrder ==
  \A t \in AllTasks :
    /\ t.document_id # "unset" => t.file_path
    /\ t.file_path => (t.downloaded_media = "dict" /\ "ok" \in Outcomes(t, "write"))
    /\ Performed(t, "write") => "ok" \in Outcomes(t, "file")
    /\ Performed(t, "file") => "ok" \in Outcomes(t, "meta")
    /\ Performed(t, "upload") => "ok" \in Outcomes(t, "write")
    /\ Performed(t, "process") => Outcomes(t, "upload") \cap UploadGaveDocument # {}

(* C29 witness: a task went through all four stages.                       *)
C29_Witness ==
  \E t \in Finished :
    /\ t.document_id = "42"
    /\ t.file_path
    /\ "success_listed" \in Outcomes(t, "process")

(* C30: a later stage's failure undoes nothing: a task for which a file   *)
(* was written keeps its file path, and a task whose upload returned a    *)
(* document id keeps that id, whatever happens afterwards.                 *)
C30_NoRollback ==
  \A t \in AllTasks :
    /\ "ok" \in Outcomes(t, "write") => t.file_path
    /\ "id" \in Outcomes(t, "upload") => t.document_id = "42"
    /\ "no_id_key" \in Outcomes(t, "upload") => t.document_id = "unknown"

(* C30 witness: one task's upload timed out after its file was written,   *)
(* or its process call failed after the upload; it ended with the file    *)
(* path (and the document id) still recorded.                              *)
C30_Witness ==
  \E t \in Finished :
    /\ t.file_path
    /\ \/ "timeout" \in Outcomes(t, "upload")
       \/ ("http_error" \in Outcomes(t, "process") /\ t.document_id = "42")

(* A queue_media_for_processing call for m whose is_duplicate call        *)
(* returns true: the key is held and the call is recorded as dropped.     *)
DuplicateCall(m) ==
  /\ IsDuplicateResult(m)
  /\ lastCall' = [lastCall EXCEPT ![_generate_message_hash(m)] =
                    [any |-> now, accepted |-> @.accepted, dropped |-> TRUE]]

(* C31: an is_duplicate call that returns true changes nothing in the     *)
(* deduplicator: the key set and the timestamp map are unchanged, so the  *)
(* key's insertion time is not refreshed and no expired key is removed.   *)
C31_DuplicateCallChangesNothing ==
  [][\A m \in Messages :
       DuplicateCall(m) =>
         /\ UNCHANGED <<processed_messages, message_timestamps>>
         /\ message_timestamps'[_generate_message_hash(m)] =
              message_timestamps[_generate_message_hash(m)]
         /\ expired_hashes(message_timestamps', now) =
              expired_hashes(message_timestamps, now)]_vars

(* C31 witness: a call was dropped as a duplicate at a time later than    *)
(* the key's insertion, while another held key had already expired: the   *)
(* expired key is still held and the dropped key keeps its first stamp.   *)
C31_Witness ==
  \E h, k \in Hashes :
    /\ lastCall[h].dropped
    /\ lastCall[h].any = now
    /\ h \in processed_messages
    /\ message_timestamps[h] < now
    /\ k \in processed_messages
    /\ ExpiredAt(message_timestamps[k], now)

(* A queue_media_for_processing call for m whose is_duplicate call        *)
(* returns false: the key is not held and the call creates a task.        *)
AcceptedCall(m) ==
  /\ ~IsDuplicateResult(m)
  /\ CreatesTask
  /\ lastCall' = [lastCall EXCEPT ![_generate_message_hash(m)] =
                    [any |-> now, accepted |-> now, dropped |-> FALSE]]

(* The held keys whose insertion time is not older than t - expiry.       *)
WithinWindow(t) ==
  {k \in processed_messages : message_timestamps[k] >= t - expiry_minutes}

(* C32: an is_duplicate call at time t that returns false leaves the      *)
(* deduplicator holding exactly the previously held keys stamped no       *)
(* earlier than t - expiry, with their stamps, plus the new key stamped t.*)
C32_AcceptedCallCleansExactly ==
  [][\A m \in Messages :
       AcceptedCall(m) =>
         LET h == _generate_message_hash(m) IN
         /\ processed_messages' = WithinWindow(now) \cup {h}
         /\ DOMAIN message_timestamps' = WithinWindow(now) \cup {h}
         /\ message_timestamps'[h] = now
         /\ \A k \in WithinWindow(now) \ {h} :
              message_timestamps'[k] = message_timestamps[k]]_vars

(* C32 witness: a key has been accepted a second time, so that the        *)
(* cleanup of another key's accepted call removed it, and its own second  *)
(* accepted call kept that other key, which was within the window.        *)
C32_Witness ==
  \E h, k \in Hashes :
    /\ h # k
    /\ created = 3
    /\ lastCall[k].accepted = now /\ ~lastCall[k].dropped
    /\ lastCall[h].accepted >= now - expiry_minutes
    /\ processed_messages = {h, k}
    /\ message_timestamps[h] = lastCall[h].accepted
    /\ message_timestamps[k] = now

(* Two payloads agree on the four identity fields: each of the four is    *)
(* absent from both or present in both with the same value.               *)
SameIdentity(d, e) ==
  \A k \in 1..4 :
    LET key == IdentityFields[k] IN
    {d[i] : i \in {j \in 1..Len(d) : d[j][1] = key}} =
    {e[i] : i \in {j \in 1..Len(e) : e[j][1] = key}}

HasKey(d, key) == \E k \in 1..Len(d) : d[k][1] = key

(* C33: the deduplication key is a function of exactly the fields id,     *)
(* from, timestamp and type: every payload that agrees with the hashed    *)
(* one on these four gets the same key, whatever its other fields and the *)
(* order of its fields, and a payload lacking some of the four still gets *)
(* a key (the absent fields enter it as None).                             *)
C33_KeyOfFourFieldsOnly ==
  file_call.fn = "_generate_message_hash" =>
    LET d == file_call.args[1] IN
    /\ Len(file_call.result) = 4
    /\ \A k \in 1..4 :
         ~HasKey(d, IdentityFields[k]) => file_call.result[k] = None
    /\ \A e \in Payloads :
         SameIdentity(d, e) => _generate_message_hash(key_fields(e)) = file_call.result

(* C33 witness: the hashed payload lacks the sender, carries a caption    *)
(* and has its type and its timestamp before its id.                       *)
C33_Witness ==
  /\ file_call.fn = "_generate_message_hash"
  /\ file_call.args[1] = << <<"caption", "hello">>, <<"type", "image">>,
                            <<"timestamp", "1700000000">>, <<"id", "wamid.A">> >>
  /\ file_call.result = <<"wamid.A", None, "1700000000", "image">>

(* C34: every task accepted by queue_media_for_processing eventually      *)
(* ends with a terminal status, under fair scheduling and with every      *)
(* request returning or timing out: a queued task always has a live loop  *)
(* to take it, the end of a task leaves it with a terminal status, and    *)
(* every task leaves the pipeline, also one that is queued or running     *)
(* while the processor is stopped and one accepted after a stop.           *)
C34_AcceptedTaskTerminates ==
  /\ [](processing_queue # <<>> => LiveLoops > 0)
  /\ [][TaskEnds =>
          /\ Len(finished') = 1
          /\ finished'[1].status \in TerminalStatuses
          /\ \E i \in (DOMAIN tasks) \ (DOMAIN tasks') :
               finished'[1].message_data = tasks[i].message_data]_vars
  /\ \A i \in TaskIds :
       /\ (i \in DOMAIN tasks) ~> (i \notin DOMAIN tasks /\ Len(finished) = 1)
       /\ (i \in DOMAIN tasks /\ ~is_processing) ~> (i \notin DOMAIN tasks)
       /\ (i \in Queued /\ LiveLoops = 2) ~> (i \notin Queued)

(* C34 witness: the processor was stopped, started again while the first  *)
(* loop was still alive, and stopped again; a task has ended and another  *)
(* is in the queue while the processor is stopped.                         *)
C34_Witness ==
  /\ ~is_processing
  /\ LiveLoops = 2
  /\ processing_queue # <<>>
  /\ Len(finished) = 1
  /\ finished[1].status \in TerminalStatuses

(* The platform access credential as config.py loads it (CONFIG line 42). *)
CredentialConfigured == ConfigGet("ACCESS_TOKEN")

(* The task has been taken from the queue: its fetch has begun.            *)
FetchBegun(t) == \E k \in 1..Len(t.hist) : t.hist[k] = "downloading"

(* C35, as stated: the fetch of a task fails as configuration-missing,    *)
(* with no request issued, if and only if no access credential is         *)
(* configured; with the credential in the loaded configuration the        *)
(* metadata lookup is issued.                                              *)
C35_ConfigurationMissingIffNoCredential ==
  /\ \A t \in AllTasks :
       FetchBegun(t) =>
         ("missing" \in Outcomes(t, "credential") <=> ~CredentialConfigured)
  /\ \A i \in DOMAIN running :
       CredentialConfigured => (running[i] = "meta" \/ Performed(tasks[i], "meta"))
  /\ \A t \in Finished :
       CredentialConfigured => Performed(t, "meta")

(* The processing_data dict of task i after the step.                      *)
After(i) == IF i \in DOMAIN tasks' THEN tasks'[i] ELSE finished'[1]

(* C36, as stated: the size carried in the result of a successful fetch   *)
(* is the size the metadata response declared, and the store step writes  *)
(* a file only if that declared size is within the kind's ceiling, also   *)
(* when the downloaded content has a different length.                     *)
C36_FetchResultCarriesDeclaredSize ==
  [][\A i \in DOMAIN running :
       (running[i] = "file" /\ After(i).downloaded_media = "dict") =>
         /\ After(i).file_size = tasks[i].declared_size
         /\ Performed(After(i), "write") =>
              validate_file_size(tasks[i].declared_size, tasks[i].msg_type)]_vars

(* C37, as stated: in every reachable state is_processing, the flag that  *)
(* get_system_status reports, is true if and only if a worker loop is     *)
(* live (waiting at the queue or processing a task).                       *)
C37_FlagIffLoopLive == is_processing <=> LiveLoops > 0

(* C38, as stated: for every message kind and MIME type the subdirectory  *)
(* chosen by get_media_subdirectory, and so the one the file is written   *)
(* into, is one of the directories ensure_media_directory creates.         *)
C38_SubdirectoryIsCreated ==
  /\ file_call.fn = "get_media_subdirectory" =>
       file_call.result \in ensure_media_directory
  /\ file_call.fn = "file_path" =>
       file_call.result.subdirectory \in ensure_media_directory

(* The task ended in a failure: with one of the failure statuses, or      *)
(* after one of them had been assigned to it.                              *)
EndedInFailure(t) ==
  \E k \in 1..Len(t.hist) : t.hist[k] \in FailureStatuses \cup {"failed"}

(* A task of key h that ended in failure was accepted within the expiry   *)
(* window before now.                                                      *)
FailedWithinWindow(h) ==
  \E t \in Finished :
    /\ KeyOf(t) = h
    /\ EndedInFailure(t)
    /\ now - t.timestamp <= expiry_minutes

(* C39: the failure of a task does not release its deduplication key:     *)
(* while the key's expiry window lasts the key of a task that ended in    *)
(* failure is held, and a queue_media_for_processing call for the same    *)
(* message is dropped: it creates no task and changes neither the queue   *)
(* nor the deduplicator.                                                   *)
C39_FailureKeepsKey ==
  /\ [](\A h \in Hashes : FailedWithinWindow(h) => h \in processed_messages)
  /\ [][\A m \in Messages :
          (FailedWithinWindow(_generate_message_hash(m)) /\ queue_media_for_processing(m)) =>
            /\ NoOpOnQueue
            /\ lastCall'[_generate_message_hash(m)].dropped
            /\ UNCHANGED <<processed_messages, message_timestamps, is_processing,
                           idle_loops>>]_vars

(* C39 witness: the only task created has ended download_failed, and a    *)
(* later call for its message, within the window, was dropped.            *)
C39_Witness ==
  \E h \in Hashes :
    /\ created = 1
    /\ tasks = <<>>
    /\ FailedWithinWindow(h)
    /\ \E t \in Finished : t.status = "download_failed"
    /\ lastCall[h].dropped
    /\ lastCall[h].any = now
    /\ lastCall[h].any > lastCall[h].accepted

(* C40: start_processing called while is_processing is true creates no    *)
(* worker loop and changes neither the flag nor the queue, whether it is  *)
(* called directly or by queue_media_for_processing after its put.        *)
C40_StartIdempotentWhileRunning ==
  /\ [][(is_processing /\ start_processing) =>
          UNCHANGED <<is_processing, idle_loops, running, processing_queue, tasks>>]_vars
  /\ [][(is_processing /\ \E m \in Messages : AcceptedCall(m)) =>
          /\ is_processing'
          /\ LiveLoops' = LiveLoops
          /\ processing_queue' = Append(processing_queue, created')]_vars
  /\ [](is_processing => LiveLoops > 0)

(* C40 witness: two tasks are queued and none has been taken, the flag is *)
(* set and one loop exists: the start_processing call of the second       *)
(* enqueue found the flag set and created no loop.                         *)
C40_Witness ==
  /\ is_processing
  /\ Len(processing_queue) = 2
  /\ created = 2
  /\ running = <<>>
  /\ idle_loops = 1

====
